---- MODULE Spec2Model ----
(***************************************************************************)
(* Safe owner manager: reconciliation of a Safe's owner list and threshold *)
(* (lib/index.js, edit-distance version; the naive version and the RPC    *)
(* lookup live in the later revision of lib/index.js).                     *)
(*                                                                         *)
(* JavaScript values that are not addresses are modelled by reserved       *)
(* strings: JSNull is the value null, JSUndefined the value undefined.     *)
(* An object used as a map (ownerLinkedList) is a sequence of <<key, value>>*)
(* pairs in insertion order, which is the order Object.entries visits.     *)
(***************************************************************************)
EXTENDS Integers, Sequences, FiniteSets, TLC

\* ------------------------------------------------------------------ bounds
MaxOwners == 3       \* longest fetched owner list
MaxNew == 3          \* longest requested owner list
MaxThreshold == 3    \* largest fetched threshold; requests go one above
MaxEditLen == 3      \* longest sequence given to calculateEditOperations alone
MaxBatchLen == 2     \* longest transaction list given to calculateChecksum alone

\* ------------------------------------------------------------- JS values
Addr == {"A", "B", "C", "D"}      \* checksummed owner addresses
JSNull == "<null>"
JSUndefined == "<undefined>"
SENTINEL_OWNERS == "0x1"

Truthy(v) == v \notin {JSNull, JSUndefined, ""}

\* String(v), the coercion applied to a value used as a property key.
PropertyKey(v) ==
  IF v = JSNull THEN "null" ELSE IF v = JSUndefined THEN "undefined" ELSE v

SeqHas(s, x) == \E i \in 1..Len(s) : s[i] = x
SeqWithout(s, x) == SelectSeq(s, LAMBDA y : y # x)
SeqToSet(s) == {s[i] : i \in 1..Len(s)}
IsDupFree(s) == \A i, j \in 1..Len(s) : s[i] = s[j] => i = j

\* new Set(array): first occurrences, in insertion order.
RECURSIVE NewSet(_)
NewSet(s) ==
  IF s = <<>> THEN <<>>
  ELSE LET front == NewSet(SubSeq(s, 1, Len(s) - 1))
           last == s[Len(s)]
       IN IF SeqHas(front, last) THEN front ELSE Append(front, last)

\* ----------------------------------------------------- reorderNewOwners
\* First loop: keep every current owner that is still wanted at its own index,
\* mark the other indices with the null placeholder.
RECURSIVE AlignMatching(_, _, _, _)
AlignMatching(currentOwners, i, reordered, remainingNewOwners) ==
  IF i > Len(currentOwners)
  THEN [reordered |-> reordered, remaining |-> remainingNewOwners]
  ELSE LET owner == currentOwners[i] IN
       IF SeqHas(remainingNewOwners, owner)
       THEN AlignMatching(currentOwners, i + 1, Append(reordered, owner),
                          SeqWithout(remainingNewOwners, owner))
       ELSE AlignMatching(currentOwners, i + 1, Append(reordered, JSNull),
                          remainingNewOwners)

\* The second loop taking the remaining owners from the end (pop for shift).
RECURSIVE FillPlaceholdersFromEnd(_, _, _)
FillPlaceholdersFromEnd(reordered, i, remainingNewOwnersArray) ==
  IF i > Len(reordered)
  THEN [reordered |-> reordered, remaining |-> remainingNewOwnersArray]
  ELSE IF ~Truthy(reordered[i]) /\ Len(remainingNewOwnersArray) > 0
       THEN FillPlaceholdersFromEnd(
              [reordered EXCEPT ![i] = remainingNewOwnersArray[Len(remainingNewOwnersArray)]],
              i + 1,
              SubSeq(remainingNewOwnersArray, 1, Len(remainingNewOwnersArray) - 1))
       ELSE FillPlaceholdersFromEnd(reordered, i + 1, remainingNewOwnersArray)

\* Second loop: a placeholder takes the next remaining owner while one is left.
RECURSIVE FillPlaceholders(_, _, _)
FillPlaceholders(reordered, i, remainingNewOwnersArray) ==
  IF i > Len(reordered)
  THEN [reordered |-> reordered, remaining |-> remainingNewOwnersArray]
  ELSE IF ~Truthy(reordered[i]) /\ Len(remainingNewOwnersArray) > 0
       THEN FillPlaceholders([reordered EXCEPT ![i] = Head(remainingNewOwnersArray)],
                             i + 1, Tail(remainingNewOwnersArray))
       ELSE FillPlaceholders(reordered, i + 1, remainingNewOwnersArray)

\* The alignment without its second loop: placeholders stay, every remaining
\* owner is appended.
reorderNewOwnersNoFill(currentOwners, newOwners) ==
  LET aligned == AlignMatching(currentOwners, 1, <<>>, NewSet(newOwners))
  IN aligned.reordered \o aligned.remaining

\* The alignment with the unfilled placeholders taken out of its result.
reorderNewOwnersCompact(currentOwners, newOwners) ==
  LET aligned == AlignMatching(currentOwners, 1, <<>>, NewSet(newOwners))
      filled == FillPlaceholders(aligned.reordered, 1, aligned.remaining)
  IN SelectSeq(filled.reordered \o filled.remaining, LAMBDA x : x # JSNull)

\* The alignment left out: the desired owners in the order they were given.
reorderNewOwnersAsGiven(currentOwners, newOwners) == newOwners

reorderNewOwners(currentOwners, newOwners) ==
  LET aligned == AlignMatching(currentOwners, 1, <<>>, NewSet(newOwners))
      filled == FillPlaceholders(aligned.reordered, 1, aligned.remaining)
  IN filled.reordered \o filled.remaining

\* ----------------------------------------------- calculateEditOperations
Min3(a, b, c) ==
  IF a <= b /\ a <= c THEN a ELSE IF b <= c THEN b ELSE c

\* One row of the matrix: row[j + 1] is dp[i][j].
RECURSIVE DpRow(_, _, _, _, _)
DpRow(prevRow, i, currentOwner, newOwners, row) ==
  LET j == Len(row) IN
  IF j > Len(newOwners) THEN row
  ELSE IF currentOwner = newOwners[j]
       THEN DpRow(prevRow, i, currentOwner, newOwners, Append(row, prevRow[j]))
       ELSE LET substitutionCost == prevRow[j] + 1
                insertionCost == row[j] + 1
                deletionCost == prevRow[j + 1] + 1
            IN DpRow(prevRow, i, currentOwner, newOwners,
                     Append(row, Min3(substitutionCost, insertionCost, deletionCost)))

\* The matrix: dp[i + 1][j + 1] is the source's dp[i][j].
RECURSIVE DpRows(_, _, _)
DpRows(currentOwners, newOwners, rows) ==
  LET i == Len(rows) IN
  IF i > Len(currentOwners) THEN rows
  ELSE DpRows(currentOwners, newOwners,
              Append(rows, DpRow(rows[i], i, currentOwners[i], newOwners, <<i>>)))

\* The matrix without the base case of its first row (dp[0][j] stays 0).
EditMatrixNoBaseRow(currentOwners, newOwners) ==
  DpRows(currentOwners, newOwners, << [j \in 1..(Len(newOwners) + 1) |-> 0] >>)

EditMatrix(currentOwners, newOwners) ==
  DpRows(currentOwners, newOwners, << [j \in 1..(Len(newOwners) + 1) |-> j - 1] >>)

SwapOp(oldOwner, newOwner) ==
  [type |-> "swap", oldOwner |-> oldOwner, newOwner |-> newOwner]
AddOp(owner) == [type |-> "add", owner |-> owner]
RemoveOp(owner) == [type |-> "remove", owner |-> owner]

\* The chain with the insertion test ahead of the substitution test.
BacktrackBranchAddFirst(dp, currentOwners, newOwners, i, j) ==
  IF i > 0 /\ j > 0 /\ currentOwners[i] = newOwners[j] THEN "match"
  ELSE IF j > 0 /\ dp[i + 1][j + 1] = dp[i + 1][j] + 1 THEN "add"
  ELSE IF i > 0 /\ j > 0 /\ dp[i + 1][j + 1] = dp[i][j] + 1 THEN "swap"
  ELSE IF i > 0 /\ dp[i + 1][j + 1] = dp[i][j + 1] + 1 THEN "remove"
  ELSE "throw"

\* The chain with a substitution branch that does not look at the matrix.
BacktrackBranchNoCostCheck(dp, currentOwners, newOwners, i, j) ==
  IF i > 0 /\ j > 0 /\ currentOwners[i] = newOwners[j] THEN "match"
  ELSE IF i > 0 /\ j > 0 THEN "swap"
  ELSE IF j > 0 /\ dp[i + 1][j + 1] = dp[i + 1][j] + 1 THEN "add"
  ELSE IF i > 0 /\ dp[i + 1][j + 1] = dp[i][j + 1] + 1 THEN "remove"
  ELSE "throw"

\* The branch the backtrack loop takes at cell (i, j), in the order of the
\* if / else-if chain.
BacktrackBranch(dp, currentOwners, newOwners, i, j) ==
  IF i > 0 /\ j > 0 /\ currentOwners[i] = newOwners[j] THEN "match"
  ELSE IF i > 0 /\ j > 0 /\ dp[i + 1][j + 1] = dp[i][j] + 1 THEN "swap"
  ELSE IF j > 0 /\ dp[i + 1][j + 1] = dp[i + 1][j] + 1 THEN "add"
  ELSE IF i > 0 /\ dp[i + 1][j + 1] = dp[i][j + 1] + 1 THEN "remove"
  ELSE "throw"

RECURSIVE Backtrack(_, _, _, _, _, _)
Backtrack(dp, currentOwners, newOwners, i, j, operations) ==
  IF ~(i > 0 \/ j > 0) THEN [threw |-> FALSE, operations |-> operations]
  ELSE LET branch == BacktrackBranch(dp, currentOwners, newOwners, i, j) IN
       CASE branch = "match" ->
              Backtrack(dp, currentOwners, newOwners, i - 1, j - 1, operations)
         [] branch = "swap" ->
              Backtrack(dp, currentOwners, newOwners, i - 1, j - 1,
                        <<SwapOp(currentOwners[i], newOwners[j])>> \o operations)
         [] branch = "add" ->
              Backtrack(dp, currentOwners, newOwners, i, j - 1,
                        <<AddOp(newOwners[j])>> \o operations)
         [] branch = "remove" ->
              Backtrack(dp, currentOwners, newOwners, i - 1, j,
                        <<RemoveOp(currentOwners[i])>> \o operations)
         [] OTHER -> [threw |-> TRUE, operations |-> operations]

calculateEditOperations(currentOwners, newOwners) ==
  Backtrack(EditMatrix(currentOwners, newOwners), currentOwners, newOwners,
            Len(currentOwners), Len(newOwners), <<>>)

\* ------------------------------------------------------ ownerLinkedList
\* obj[k]: the value stored under String(k), undefined when there is none.
LLHas(ll, k) == \E i \in 1..Len(ll) : ll[i][1] = PropertyKey(k)
LLGet(ll, k) ==
  IF LLHas(ll, k)
  THEN ll[CHOOSE i \in 1..Len(ll) : ll[i][1] = PropertyKey(k)][2]
  ELSE JSUndefined
\* obj[k] = v: an existing key keeps its place, a new key goes last.
LLSet(ll, k, v) ==
  IF LLHas(ll, k)
  THEN [i \in 1..Len(ll) |-> IF ll[i][1] = PropertyKey(k) THEN <<ll[i][1], v>> ELSE ll[i]]
  ELSE Append(ll, <<PropertyKey(k), v>>)
\* delete obj[k]
LLDelete(ll, k) == SelectSeq(ll, LAMBDA e : e[1] # PropertyKey(k))
LLKeys(ll) == {ll[i][1] : i \in 1..Len(ll)}

RECURSIVE LinkOwners(_, _, _)
LinkOwners(currentOwners, i, ll) ==
  IF i > Len(currentOwners) - 1 THEN ll
  ELSE LinkOwners(currentOwners, i + 1, LLSet(ll, currentOwners[i], currentOwners[i + 1]))

buildOwnerLinkedList(currentOwners, sentinel) ==
  LET head == IF Len(currentOwners) > 0 /\ Truthy(currentOwners[1])
              THEN currentOwners[1] ELSE sentinel
      linked == LinkOwners(currentOwners, 1, LLSet(<<>>, sentinel, head))
  IN IF Len(currentOwners) > 0
     THEN LLSet(linked, currentOwners[Len(currentOwners)], sentinel)
     ELSE linked

\* The key of the first entry whose value is owner, null when there is none.
getPrevOwner(owner, ownerLinkedList) ==
  IF \E i \in 1..Len(ownerLinkedList) : ownerLinkedList[i][2] = owner
  THEN LET first == CHOOSE i \in 1..Len(ownerLinkedList) :
                      /\ ownerLinkedList[i][2] = owner
                      /\ \A k \in 1..(i - 1) : ownerLinkedList[k][2] # owner
       IN ownerLinkedList[first][1]
  ELSE JSNull

\* The walk of getLastOwner; it has no exit on a cycle that misses the
\* sentinel, which is reported as the value "<diverges>" after more steps than
\* the list has entries.
RECURSIVE WalkToLast(_, _, _, _)
WalkToLast(ownerLinkedList, sentinel, currentOwner, steps) ==
  LET next == LLGet(ownerLinkedList, currentOwner) IN
  IF Truthy(next) /\ next # sentinel
  THEN IF steps > Len(ownerLinkedList) THEN "<diverges>"
       ELSE WalkToLast(ownerLinkedList, sentinel, next, steps + 1)
  ELSE currentOwner

getLastOwner(ownerLinkedList, sentinel) ==
  WalkToLast(ownerLinkedList, sentinel, sentinel, 0)

updateOwnerLinkedList(oldOwner, newOwner, ownerLinkedList) ==
  LET prevOwner == getPrevOwner(oldOwner, ownerLinkedList)
      relinked == LLSet(ownerLinkedList, prevOwner, newOwner)
      inserted == LLSet(relinked, newOwner, LLGet(relinked, oldOwner))
  IN LLDelete(inserted, oldOwner)

\* The list update of the remove branch of generateTransactions.
removeFromLinkedList(owner, ownerLinkedList) ==
  LET prev == getPrevOwner(owner, ownerLinkedList)
      relinked == LLSet(ownerLinkedList, prev, LLGet(ownerLinkedList, owner))
  IN LLDelete(relinked, owner)

\* The list update of the add branch of generateTransactions.
addToLinkedList(owner, ownerLinkedList) ==
  LET lastOwner == getLastOwner(ownerLinkedList, SENTINEL_OWNERS)
      linked == LLSet(ownerLinkedList, lastOwner, owner)
  IN LLSet(linked, owner, SENTINEL_OWNERS)

\* ---------------------------------------------------------- transactions
AddressInput(name) == [internalType |-> "address", name |-> name, type |-> "address"]
UintInput(name) == [internalType |-> "uint256", name |-> name, type |-> "uint256"]

Transaction(safeAddress, name, inputs, values) ==
  [to |-> safeAddress, value |-> "0", data |-> JSNull,
   contractMethod |-> [inputs |-> inputs, name |-> name, payable |-> FALSE],
   contractInputsValues |-> values]

\* swapOwner with its two owner arguments exchanged.
createSwapOwnerTransactionReversed(safeAddress, oldOwner, newOwner, ownerLinkedList) ==
  Transaction(safeAddress, "swapOwner",
              <<AddressInput("prevOwner"), AddressInput("oldOwner"), AddressInput("newOwner")>>,
              [prevOwner |-> getPrevOwner(oldOwner, ownerLinkedList),
               oldOwner |-> newOwner, newOwner |-> oldOwner])

createSwapOwnerTransaction(safeAddress, oldOwner, newOwner, ownerLinkedList) ==
  Transaction(safeAddress, "swapOwner",
              <<AddressInput("prevOwner"), AddressInput("oldOwner"), AddressInput("newOwner")>>,
              [prevOwner |-> getPrevOwner(oldOwner, ownerLinkedList),
               oldOwner |-> oldOwner, newOwner |-> newOwner])

\* addOwnerWithThreshold raising the threshold with the owner it adds.
createAddOwnerTransactionRaising(safeAddress, newOwner, threshold) ==
  Transaction(safeAddress, "addOwnerWithThreshold",
              <<AddressInput("owner"), UintInput("_threshold")>>,
              [owner |-> newOwner, _threshold |-> ToString(threshold + 1)])

createAddOwnerTransaction(safeAddress, newOwner, threshold) ==
  Transaction(safeAddress, "addOwnerWithThreshold",
              <<AddressInput("owner"), UintInput("_threshold")>>,
              [owner |-> newOwner, _threshold |-> ToString(threshold)])

createRemoveOwnerTransaction(safeAddress, oldOwner, threshold, ownerLinkedList) ==
  Transaction(safeAddress, "removeOwner",
              <<AddressInput("prevOwner"), AddressInput("owner"), UintInput("_threshold")>>,
              [prevOwner |-> getPrevOwner(oldOwner, ownerLinkedList),
               owner |-> oldOwner, _threshold |-> ToString(threshold)])

createChangeThresholdTransaction(safeAddress, newThreshold) ==
  Transaction(safeAddress, "changeThreshold", <<UintInput("_threshold")>>,
              [_threshold |-> ToString(newThreshold)])

MethodOf(tx) == tx.contractMethod.name

\* -------------------------------------------------------------- checksum
EmptyChecksum == <<>>      \* the string ''

\* JSON.parse(JSON.stringify(x)) of an object: a property whose value is
\* undefined is dropped, every other value of a batch survives unchanged.
JSONCloneObject(obj) ==
  [k \in {x \in DOMAIN obj : obj[x] # JSUndefined} |-> obj[k]]

JSONClone(jsonData) ==
  [version |-> jsonData.version, chainId |-> jsonData.chainId,
   createdAt |-> jsonData.createdAt, meta |-> JSONCloneObject(jsonData.meta),
   transactions |->
     [i \in 1..Len(jsonData.transactions) |->
        [jsonData.transactions[i] EXCEPT
           !.contractInputsValues = JSONCloneObject(@)]]]

\* Object.keys(dataForChecksum).sort(): the top-level keys, sorted.
ReplacerKeys == <<"chainId", "createdAt", "meta", "transactions", "version">>

\* JSON.stringify(object, propertyList) of an object whose values are not
\* objects: the properties named by the list, in the order of the list.
StringifyFlat(obj, propertyList) ==
  LET ks == SelectSeq(propertyList, LAMBDA k : k \in DOMAIN obj)
  IN [i \in 1..Len(ks) |-> <<ks[i], obj[ks[i]]>>]

StringifyMethod(method, propertyList) ==
  LET ks == SelectSeq(propertyList, LAMBDA k : k \in DOMAIN method)
  IN [i \in 1..Len(ks) |->
        <<ks[i], IF ks[i] = "inputs"
                 THEN [n \in 1..Len(method.inputs) |->
                         StringifyFlat(method.inputs[n], propertyList)]
                 ELSE method[ks[i]]>>]

StringifyTransaction(tx, propertyList) ==
  LET ks == SelectSeq(propertyList, LAMBDA k : k \in DOMAIN tx)
  IN [i \in 1..Len(ks) |->
        <<ks[i], CASE ks[i] = "contractMethod" ->
                        StringifyMethod(tx.contractMethod, propertyList)
                   [] ks[i] = "contractInputsValues" ->
                        StringifyFlat(tx.contractInputsValues, propertyList)
                   [] OTHER -> tx[ks[i]]>>]

\* The array replacer filters the properties of every nested object too;
\* array elements are all kept.
Stringify(data, propertyList) ==
  LET ks == SelectSeq(propertyList, LAMBDA k : k \in DOMAIN data)
  IN [i \in 1..Len(ks) |->
        <<ks[i], CASE ks[i] = "meta" -> StringifyFlat(data.meta, propertyList)
                   [] ks[i] = "transactions" ->
                        [n \in 1..Len(data.transactions) |->
                           StringifyTransaction(data.transactions[n], propertyList)]
                   [] OTHER -> data[ks[i]]>>]

\* keccak256 is taken to be injective: the digest is the string it hashes.
Keccak256Hex(jsonString) == jsonString

\* A recursive canonical form: every key of every object, and the stored
\* checksum left in place.
AllKeys ==
  <<"_threshold", "chainId", "checksum", "contractInputsValues", "contractMethod",
    "createdAt", "createdFromOwnerAddress", "createdFromSafeAddress", "data",
    "description", "inputs", "internalType", "meta", "name", "newOwner", "oldOwner",
    "owner", "payable", "prevOwner", "to", "transactions", "txBuilderVersion",
    "type", "value", "version">>
calculateChecksumUnblanked(jsonData) ==
  <<"0x", Keccak256Hex(Stringify(JSONClone(jsonData), AllKeys))>>

calculateChecksum(jsonData) ==
  LET dataForChecksum == [JSONClone(jsonData) EXCEPT !.meta.checksum = EmptyChecksum]
      jsonString == Stringify(dataForChecksum, ReplacerKeys)
  IN <<"0x", Keccak256Hex(jsonString)>>

BatchMeta(safeAddressChecksum) ==
  [name |-> "Transactions Batch", description |-> "", txBuilderVersion |-> "1.0.0",
   createdFromSafeAddress |-> safeAddressChecksum, createdFromOwnerAddress |-> "",
   checksum |-> EmptyChecksum]

\* ------------------------------------------------------- address inputs
\* ethers.getAddress accepts an address in any letter case and returns its
\* checksummed form; it throws on anything else.  The raw forms are the
\* checksummed address, its lower-case form, and the lower-case form padded
\* with blanks (which only trim() makes acceptable).
LowerOf == [a \in Addr \cup {"0xSafe"} |->
              CASE a = "A" -> "a" [] a = "B" -> "b" [] a = "C" -> "c"
                [] a = "D" -> "d" [] a = "0xSafe" -> "0xsafe"]
PaddedOf == [a \in Addr |->
               CASE a = "A" -> " a " [] a = "B" -> " b " [] a = "C" -> " c "
                 [] a = "D" -> " d "]
InvalidAddress == "0xZZ"

Trim(s) == IF \E a \in Addr : PaddedOf[a] = s
           THEN LowerOf[CHOOSE a \in Addr : PaddedOf[a] = s] ELSE s
IsAddress(s) == \E a \in DOMAIN LowerOf : s = a \/ s = LowerOf[a]
getAddress(s) == CHOOSE a \in DOMAIN LowerOf : s = a \/ s = LowerOf[a]

\* ------------------------------------------------------------------ state
VARIABLES
  pc,                   \* position in generateTransactions
  options,              \* the argument of generateTransactions
  chain,                \* what getOwners() / getThreshold() answer
  safeAddressChecksum, validatedNewOwners,
  currentOwners, currentThreshold, threshold,
  reorderedNewOwners, ownerLinkedList, operations,
  opIndex,              \* number of operations the for-of loop has consumed
  transactions, hasAddOrRemove,
  jsonOutput,           \* the batch under construction, then the return value
  error,                \* the message of the Error thrown, "" when none
  received,             \* the batch as written to the output file
  providerUrl           \* the endpoint getRpcUrl() resolved

vars == <<pc, options, chain, safeAddressChecksum, validatedNewOwners,
          currentOwners, currentThreshold, threshold, reorderedNewOwners,
          ownerLinkedList, operations, opIndex, transactions, hasAddOrRemove,
          jsonOutput, error, received, providerUrl>>

RECURSIVE DupFreeSeqs(_, _)
DupFreeSeqs(S, n) ==
  IF n = 0 THEN {<<>>}
  ELSE LET shorter == DupFreeSeqs(S, n - 1)
       IN shorter \cup {Append(s, x) : <<s, x>> \in
                          {<<t, y>> \in shorter \X S : Len(t) = n - 1 /\ ~SeqHas(t, y)}}

\* Requested owner lists: every duplicate-free list; lists that repeat their
\* first address at the end, as written or in another letter case; one list
\* per address in padded lower case; one list holding no address.
NewOwnerLists ==
  DupFreeSeqs(Addr, MaxNew)
  \cup {Append(s, x) : <<s, x>> \in
          {<<t, y>> \in DupFreeSeqs(Addr, MaxNew - 1) \X (Addr \cup {PaddedOf[a] : a \in Addr}) :
             Len(t) > 0 /\ (y = t[1] \/ y = PaddedOf[t[1]])}}
  \cup {<<PaddedOf[a]>> : a \in Addr}
  \cup {<<InvalidAddress>>}

NoThreshold == -1     \* newThreshold null or undefined
NewThresholds == {NoThreshold} \cup (0..(MaxThreshold + 1))

Options(safeAddress, newOwners, chainId, newThreshold, alchemyApiKey) ==
  [safeAddress |-> safeAddress, newOwners |-> newOwners, chainId |-> chainId,
   newThreshold |-> newThreshold, alchemyApiKey |-> alchemyApiKey]

OptionSets ==
  {Options("0xSafe", o, "1", t, "key") : o \in NewOwnerLists, t \in NewThresholds}
  \cup {Options(a, <<"A">>, "1", NoThreshold, "key") : a \in {"", "0xsafe", InvalidAddress}}
  \cup {Options("0xSafe", <<"A">>, c, NoThreshold, k) :
          <<c, k>> \in {<<"", "key">>, <<"1", "">>}}

\* On-chain state: a duplicate-free owner list with a threshold between 1 and
\* the number of owners; a Safe that was never set up has no owner and
\* threshold 0.
ChainStates ==
  {[owners |-> o, threshold |-> t] :
     <<o, t>> \in {<<x, y>> \in DupFreeSeqs(Addr, MaxOwners) \X (0..MaxThreshold) :
                     IF Len(x) = 0 THEN y = 0 ELSE 1 <= y /\ y <= Len(x)}}

Clock == {1000, 1001}     \* values of Date.now(), in milliseconds

Init ==
  /\ pc = "start"
  /\ options \in OptionSets
  /\ chain \in ChainStates
  /\ safeAddressChecksum = JSUndefined
  /\ validatedNewOwners = <<>>
  /\ currentOwners = <<>>
  /\ currentThreshold = 0
  /\ threshold = 0
  /\ reorderedNewOwners = <<>>
  /\ ownerLinkedList = <<>>
  /\ operations = <<>>
  /\ opIndex = 0
  /\ transactions = <<>>
  /\ hasAddOrRemove = FALSE
  /\ jsonOutput = JSUndefined
  /\ error = ""
  /\ received = JSUndefined
  /\ providerUrl = JSUndefined

Throw(message) ==
  /\ pc' = "error"
  /\ error' = message

\* lib/index.js 26-49: required parameters, safeAddress and newOwners.
\* (newOwners is always an array here, and an array is truthy.)
ValidationFailure(o) ==
  IF ~Truthy(o.safeAddress) \/ ~Truthy(o.chainId) \/ ~Truthy(o.alchemyApiKey)
  THEN "Missing required parameters."
  ELSE IF ~IsAddress(o.safeAddress)
  THEN "Invalid Ethereum address for safeAddress"
  ELSE IF \E i \in 1..Len(o.newOwners) : ~IsAddress(Trim(o.newOwners[i]))
  THEN "Invalid Ethereum address"
  ELSE ""

Validate ==
  /\ pc = "start"
  /\ LET failure == ValidationFailure(options) IN
     IF failure # ""
     THEN /\ Throw(failure)
          /\ UNCHANGED <<safeAddressChecksum, validatedNewOwners>>
     ELSE /\ safeAddressChecksum' = getAddress(options.safeAddress)
          /\ validatedNewOwners' =
               [i \in 1..Len(options.newOwners) |-> getAddress(Trim(options.newOwners[i]))]
          /\ pc' = "fetch"
          /\ error' = ""
  /\ UNCHANGED <<providerUrl, options, chain, currentOwners, currentThreshold, threshold,
                 reorderedNewOwners, ownerLinkedList, operations, opIndex,
                 transactions, hasAddOrRemove, jsonOutput, received>>

\* lib/index.js 66-68: a read call that fails rejects the promise.
FetchFail ==
  /\ pc = "fetch"
  /\ Throw("StateFetchError")
  /\ UNCHANGED <<providerUrl, options, chain, safeAddressChecksum, validatedNewOwners,
                 currentOwners, currentThreshold, threshold, reorderedNewOwners,
                 ownerLinkedList, operations, opIndex, transactions,
                 hasAddOrRemove, jsonOutput, received>>

\* lib/index.js 70-76
resolveThreshold(newThreshold, fetchedThreshold) ==
  IF newThreshold # NoThreshold THEN newThreshold ELSE fetchedThreshold

\* The duplicate check looking only at neighbouring entries.
hasDuplicatesAdjacent(owners) ==
  \E i \in 1..(Len(owners) - 1) : owners[i] = owners[i + 1]

\* lib/index.js 79: new Set(validatedNewOwners).size !== validatedNewOwners.length
hasDuplicates(owners) == Len(NewSet(owners)) # Len(owners)

\* lib/index.js 66-96: the reads return, the threshold is resolved, the
\* duplicate check runs, and the plan (alignment, list, operations) is made.
FetchAndPlan ==
  /\ pc = "fetch"
  /\ LET fetchedOwners == [i \in 1..Len(chain.owners) |-> getAddress(chain.owners[i])]
         plan == calculateEditOperations(fetchedOwners,
                                         reorderNewOwners(fetchedOwners, validatedNewOwners))
     IN /\ currentOwners' = fetchedOwners
        /\ currentThreshold' = chain.threshold
        /\ threshold' = resolveThreshold(options.newThreshold, chain.threshold)
        /\ IF hasDuplicates(validatedNewOwners)
           THEN /\ Throw("Duplicate addresses found in the new owners list.")
                /\ UNCHANGED <<reorderedNewOwners, ownerLinkedList, operations>>
           ELSE /\ reorderedNewOwners' = reorderNewOwners(fetchedOwners, validatedNewOwners)
                /\ ownerLinkedList' = buildOwnerLinkedList(fetchedOwners, SENTINEL_OWNERS)
                /\ IF plan.threw
                   THEN /\ Throw("Error computing edit operations.")
                        /\ UNCHANGED operations
                   ELSE /\ operations' = plan.operations
                        /\ pc' = "process"
                        /\ error' = ""
  /\ UNCHANGED <<providerUrl, options, chain, safeAddressChecksum, validatedNewOwners, opIndex,
                 transactions, hasAddOrRemove, jsonOutput, received>>

\* lib/index.js 99-142: the transaction of one operation.
transactionOf(op, safeAddress, thresholdValue, ll) ==
  CASE op.type = "remove" ->
         createRemoveOwnerTransaction(safeAddress, op.owner, thresholdValue, ll)
    [] op.type = "add" ->
         createAddOwnerTransaction(safeAddress, op.owner, thresholdValue)
    [] op.type = "swap" ->
         createSwapOwnerTransaction(safeAddress, op.oldOwner, op.newOwner, ll)

\* lib/index.js 111-141: the list after one operation.
applyToLinkedList(op, ll) ==
  CASE op.type = "remove" -> removeFromLinkedList(op.owner, ll)
    [] op.type = "add" -> addToLinkedList(op.owner, ll)
    [] op.type = "swap" -> updateOwnerLinkedList(op.oldOwner, op.newOwner, ll)

\* One iteration of the for-of loop.
ProcessOperation ==
  /\ pc = "process"
  /\ opIndex < Len(operations)
  /\ LET op == operations[opIndex + 1] IN
     /\ transactions' = Append(transactions,
                               transactionOf(op, safeAddressChecksum, threshold, ownerLinkedList))
     /\ hasAddOrRemove' = (hasAddOrRemove \/ op.type \in {"remove", "add"})
     /\ ownerLinkedList' = applyToLinkedList(op, ownerLinkedList)
  /\ opIndex' = opIndex + 1
  /\ UNCHANGED <<providerUrl, pc, options, chain, safeAddressChecksum, validatedNewOwners,
                 currentOwners, currentThreshold, threshold, reorderedNewOwners,
                 operations, jsonOutput, error, received>>

\* The adjustment decided by the thresholds alone.
needsChangeThresholdAlways(thresholdValue, fetchedThreshold, addOrRemove, ops) ==
  thresholdValue # fetchedThreshold

\* lib/index.js 145-146
needsChangeThreshold(thresholdValue, fetchedThreshold, addOrRemove, ops) ==
  /\ thresholdValue # fetchedThreshold
  /\ ~addOrRemove
  /\ \E i \in 1..Len(ops) : ops[i].type = "swap"

\* lib/index.js 144-153: the loop is over; the threshold-only adjustment.
AdjustThreshold ==
  /\ pc = "process"
  /\ opIndex = Len(operations)
  /\ transactions' =
       IF needsChangeThreshold(threshold, currentThreshold, hasAddOrRemove, operations)
       THEN Append(transactions,
                   createChangeThresholdTransaction(safeAddressChecksum, threshold))
       ELSE transactions
  /\ pc' = "build"
  /\ UNCHANGED <<providerUrl, options, chain, safeAddressChecksum, validatedNewOwners,
                 currentOwners, currentThreshold, threshold, reorderedNewOwners,
                 ownerLinkedList, operations, opIndex, hasAddOrRemove, jsonOutput,
                 error, received>>

\* lib/index.js 155-169: the batch, its checksum still empty.
BuildJson ==
  /\ pc = "build"
  /\ \E now \in Clock :
       jsonOutput' = [version |-> "1.0", chainId |-> options.chainId, createdAt |-> now,
                      meta |-> BatchMeta(safeAddressChecksum),
                      transactions |-> transactions]
  /\ pc' = "stamp"
  /\ UNCHANGED <<providerUrl, options, chain, safeAddressChecksum, validatedNewOwners,
                 currentOwners, currentThreshold, threshold, reorderedNewOwners,
                 ownerLinkedList, operations, opIndex, transactions, hasAddOrRemove,
                 error, received>>

\* lib/index.js 171-176: the checksum is stored and the batch returned.
StampChecksum ==
  /\ pc = "stamp"
  /\ jsonOutput' = [jsonOutput EXCEPT !.meta.checksum = calculateChecksum(jsonOutput)]
  /\ pc' = "done"
  /\ UNCHANGED <<providerUrl, options, chain, safeAddressChecksum, validatedNewOwners,
                 currentOwners, currentThreshold, threshold, reorderedNewOwners,
                 ownerLinkedList, operations, opIndex, transactions, hasAddOrRemove,
                 error, received>>

\* bin/cli.js 38-43: the promise resolved; the batch is written to the file.
WriteOutput ==
  /\ pc = "done"
  /\ received' = jsonOutput
  /\ pc' = "written"
  /\ UNCHANGED <<providerUrl, options, chain, safeAddressChecksum, validatedNewOwners,
                 currentOwners, currentThreshold, threshold, reorderedNewOwners,
                 ownerLinkedList, operations, opIndex, transactions, hasAddOrRemove,
                 jsonOutput, error>>

\* bin/cli.js 44-46: the promise rejected; the message is logged, no file is
\* written.
ReportError ==
  /\ pc = "error"
  /\ pc' = "reported"
  /\ UNCHANGED <<providerUrl, options, chain, safeAddressChecksum, validatedNewOwners,
                 currentOwners, currentThreshold, threshold, reorderedNewOwners,
                 ownerLinkedList, operations, opIndex, transactions, hasAddOrRemove,
                 jsonOutput, error, received>>

Next ==
  \/ Validate
  \/ FetchFail
  \/ FetchAndPlan
  \/ ProcessOperation
  \/ AdjustThreshold
  \/ BuildJson
  \/ StampChecksum
  \/ WriteOutput
  \/ ReportError

Spec == Init /\ [][Next]_vars

\* ------------------------------------------------------ the naive version
\* The later revision of lib/index.js plans index by index: swaps first, then
\* removals, then additions.
\* Its second alignment loop: every placeholder takes remaining.shift(), which
\* is undefined once nothing remains.
RECURSIVE FillPlaceholdersNaive(_, _, _)
FillPlaceholdersNaive(reordered, i, remainingNewOwners) ==
  IF i > Len(reordered)
  THEN [reordered |-> reordered, remaining |-> remainingNewOwners]
  ELSE IF ~Truthy(reordered[i])
       THEN IF remainingNewOwners = <<>>
            THEN FillPlaceholdersNaive([reordered EXCEPT ![i] = JSUndefined], i + 1, <<>>)
            ELSE FillPlaceholdersNaive([reordered EXCEPT ![i] = Head(remainingNewOwners)],
                                       i + 1, Tail(remainingNewOwners))
       ELSE FillPlaceholdersNaive(reordered, i + 1, remainingNewOwners)

reorderNewOwnersNaive(fetchedOwners, newOwners) ==
  LET aligned == AlignMatching(fetchedOwners, 1, <<>>, newOwners)
      filled == FillPlaceholdersNaive(aligned.reordered, 1, aligned.remaining)
  IN filled.reordered \o filled.remaining

\* array[i]: undefined past the end.
ElementAt(array, i) == IF i \in 1..Len(array) THEN array[i] ELSE JSUndefined

\* The collecting loop; c is the record of what was collected so far.
RECURSIVE CollectNaive(_, _, _, _)
CollectNaive(fetchedOwners, newOwnersReordered, i, c) ==
  IF c.threw \/ (i > Len(fetchedOwners) /\ i > Len(newOwnersReordered)) THEN c
  ELSE LET oldOwner == ElementAt(fetchedOwners, i)
           newOwner == ElementAt(newOwnersReordered, i)
       IN CollectNaive(fetchedOwners, newOwnersReordered, i + 1,
            IF Truthy(oldOwner) /\ Truthy(newOwner)
            THEN IF oldOwner = newOwner THEN c
                 ELSE IF newOwner \in c.interimOwnersSet THEN [c EXCEPT !.threw = TRUE]
                 ELSE [c EXCEPT !.swaps = Append(@, SwapOp(oldOwner, newOwner)),
                                !.interimOwnersSet = (@ \ {oldOwner}) \cup {newOwner}]
            ELSE IF Truthy(oldOwner)
            THEN [c EXCEPT !.ownersToRemove = Append(@, RemoveOp(oldOwner)),
                           !.interimOwnersSet = @ \ {oldOwner}]
            ELSE IF Truthy(newOwner)
            THEN IF newOwner \in c.interimOwnersSet THEN [c EXCEPT !.threw = TRUE]
                 ELSE [c EXCEPT !.ownersToAdd = Append(@, AddOp(newOwner)),
                                !.interimOwnersSet = @ \cup {newOwner}]
            ELSE c)

\* The three processing loops, one after the other, as one pass over the
\* collected operations.
RECURSIVE ProcessNaive(_, _, _, _, _)
ProcessNaive(ops, safeAddress, thresholdValue, ll, txs) ==
  IF ops = <<>> THEN txs
  ELSE ProcessNaive(Tail(ops), safeAddress, thresholdValue,
                    applyToLinkedList(Head(ops), ll),
                    Append(txs, transactionOf(Head(ops), safeAddress, thresholdValue, ll)))

\* The naive generateTransactions from the threshold check to the threshold
\* adjustment: what it throws, or the transactions of its batch.
generateTransactionsNaive(safeAddress, fetchedOwners, fetchedThreshold, validatedOwners, thresholdValue) ==
  IF hasDuplicates(validatedOwners)
  THEN [error |-> "Duplicate addresses found in the new owners list.", transactions |-> <<>>]
  ELSE IF thresholdValue > Len(validatedOwners)
  THEN [error |-> "Threshold is bigger than the number of new owners.", transactions |-> <<>>]
  ELSE LET c == CollectNaive(fetchedOwners,
                             reorderNewOwnersNaive(fetchedOwners, validatedOwners), 1,
                             [swaps |-> <<>>, ownersToRemove |-> <<>>, ownersToAdd |-> <<>>,
                              interimOwnersSet |-> SeqToSet(fetchedOwners), threw |-> FALSE])
           owner == ProcessNaive(c.swaps \o c.ownersToRemove \o c.ownersToAdd, safeAddress,
                                 thresholdValue,
                                 buildOwnerLinkedList(fetchedOwners, SENTINEL_OWNERS), <<>>)
           hasAddOrRemoveNaive == c.ownersToRemove # <<>> \/ c.ownersToAdd # <<>>
       IN IF c.threw
          THEN [error |-> "Duplicate owner address detected", transactions |-> <<>>]
          ELSE [error |-> "",
                transactions |->
                  IF thresholdValue # fetchedThreshold /\ ~hasAddOrRemoveNaive
                     /\ c.swaps # <<>>
                  THEN Append(owner,
                              createChangeThresholdTransaction(safeAddress, thresholdValue))
                  ELSE owner]

\* ---------------------------------------------------------------- replay
\* An independent reading of the operations: on a set of owners, and on the
\* ordered list of owners (swap replaces in place, remove deletes, add
\* appends), without the successor map.
RECURSIVE ReplaySet(_, _)
ReplaySet(ops, owners) ==
  IF ops = <<>> THEN owners
  ELSE LET op == Head(ops) IN
       ReplaySet(Tail(ops),
                 CASE op.type = "swap" -> (owners \ {op.oldOwner}) \cup {op.newOwner}
                   [] op.type = "remove" -> owners \ {op.owner}
                   [] op.type = "add" -> owners \cup {op.owner})

RECURSIVE ReplayList(_, _)
ReplayList(ops, owners) ==
  IF ops = <<>> THEN owners
  ELSE LET op == Head(ops) IN
       ReplayList(Tail(ops),
                  CASE op.type = "swap" ->
                         [i \in 1..Len(owners) |->
                            IF owners[i] = op.oldOwner THEN op.newOwner ELSE owners[i]]
                    [] op.type = "remove" -> SeqWithout(owners, op.owner)
                    [] op.type = "add" -> Append(owners, op.owner))

PredecessorIn(owners, owner) ==
  LET i == CHOOSE k \in 1..Len(owners) : owners[k] = owner
  IN IF i = 1 THEN SENTINEL_OWNERS ELSE owners[i - 1]

Max(a, b) == IF a >= b THEN a ELSE b
OwnerMethods == {"swapOwner", "addOwnerWithThreshold", "removeOwner"}
TxIndices(txs, methods) == {k \in 1..Len(txs) : MethodOf(txs[k]) \in methods}
Planned == pc \in {"process", "build", "stamp", "done", "written"}
\* The requests the threshold guard of the design lets through.
ThresholdInRange == 1 <= threshold /\ threshold <= Len(validatedNewOwners)

\* C1: replaying the emitted operations, in order, on the fetched owner set
\* gives exactly the set of desired owners (stated for the batches of requests
\* whose threshold is in range).
C1_ReplayYieldsDesiredSet ==
  (pc = "done" /\ ThresholdInRange) =>
    ReplaySet(operations, SeqToSet(currentOwners)) = SeqToSet(validatedNewOwners)

\* C2: the prevOwner of every swapOwner and removeOwner is the predecessor of
\* its target (an owner, or the sentinel at the head) in the owner list that
\* the earlier transactions of the batch leave behind (stated for the requests
\* whose threshold is in range).
C2_PrevOwnerIsTruePredecessor ==
  (Planned /\ ThresholdInRange) =>
  \A k \in TxIndices(transactions, {"swapOwner", "removeOwner"}) :
    LET values == transactions[k].contractInputsValues
        target == IF MethodOf(transactions[k]) = "swapOwner"
                  THEN values.oldOwner ELSE values.owner
        before == ReplayList(SubSeq(operations, 1, k - 1), currentOwners)
    IN /\ SeqHas(before, target)
       /\ values.prevOwner = PredecessorIn(before, target)
       /\ values.prevOwner \in Addr \cup {SENTINEL_OWNERS}

\* C3: the batch holds max(|current \ desired|, |desired \ current|)
\* owner-changing transactions, none when the two sets are equal.
C3_OwnerTransactionCountIsMinimal ==
  pc = "done" =>
    LET current == SeqToSet(currentOwners)
        desired == SeqToSet(validatedNewOwners)
    IN Cardinality(TxIndices(transactions, OwnerMethods))
         = Max(Cardinality(current \ desired), Cardinality(desired \ current))

C3_Witness ==
  /\ pc = "done"
  /\ Cardinality(TxIndices(transactions, {"swapOwner"})) = 1
  /\ Cardinality(TxIndices(transactions, {"addOwnerWithThreshold"})) = 1
  /\ SeqToSet(currentOwners) \cap SeqToSet(validatedNewOwners) # {}

\* C5: a changed threshold with no addOwnerWithThreshold and no removeOwner in
\* the batch (swaps only, or no operation at all) ends the batch with
\* changeThreshold(threshold) (stated for the requests whose threshold is in
\* range).
C5_ThresholdOnlyChangeIsEmitted ==
  (/\ pc = "done"
   /\ ThresholdInRange
   /\ threshold # currentThreshold
   /\ TxIndices(transactions, {"addOwnerWithThreshold", "removeOwner"}) = {})
  => /\ Len(transactions) > 0
     /\ transactions[Len(transactions)]
          = createChangeThresholdTransaction(safeAddressChecksum, threshold)

\* C6: no changeThreshold when the threshold is unchanged, none next to an
\* addOwnerWithThreshold or removeOwner, at most one, and only in last place.
C6_ChangeThresholdOnlyWhenNeeded ==
  LET changes == TxIndices(transactions, {"changeThreshold"}) IN
  /\ threshold = currentThreshold => changes = {}
  /\ TxIndices(transactions, {"addOwnerWithThreshold", "removeOwner"}) # {} => changes = {}
  /\ Cardinality(changes) <= 1
  /\ \A k \in changes : k = Len(transactions)

C6_Witness ==
  /\ pc = "done"
  /\ Len(transactions) >= 2
  /\ MethodOf(transactions[Len(transactions)]) = "changeThreshold"
  /\ threshold # currentThreshold

\* C7: a resolved threshold below 1 or above the number of desired owners
\* stops generateTransactions with an error; no batch is produced.
C7_ThresholdOutOfRangeIsRejected ==
  Planned =>
    (1 <= threshold /\ threshold <= Len(validatedNewOwners))

\* Once stamped, the batch is not written again.
StampedOnce ==
  (pc \in {"stamp", "done"} /\ jsonOutput.meta.checksum # EmptyChecksum)
    => jsonOutput' = jsonOutput
\* Stamping writes meta.checksum and nothing else.
StampKeepsBatch ==
  pc = "stamp" =>
    [jsonOutput' EXCEPT !.meta.checksum = EmptyChecksum] = jsonOutput

\* C9: the checksum of a stamped batch, recomputed, is the stamped value; the
\* batch is stamped once, after the last transaction was appended, and
\* stamping changes nothing but meta.checksum.
C9_ChecksumRecomputationIsStable ==
  /\ [](pc = "stamp" => /\ jsonOutput.meta.checksum = EmptyChecksum
                        /\ jsonOutput.transactions = transactions)
  /\ [](pc = "done" => /\ calculateChecksum(jsonOutput) = jsonOutput.meta.checksum
                       /\ jsonOutput.meta.checksum # EmptyChecksum
                       /\ jsonOutput.transactions = transactions)
  /\ [][StampedOnce /\ StampKeepsBatch]_vars

C9_Witness ==
  /\ pc = "done"
  /\ Len(jsonOutput.transactions) >= 2
  /\ jsonOutput.meta.checksum = calculateChecksum(jsonOutput)

\* Example A: current = [A, B, C], desired = {A, C, D}, threshold unchanged.
ExampleA ==
  /\ pc = "done"
  /\ currentOwners = <<"A", "B", "C">>
  /\ Len(validatedNewOwners) = 3
  /\ SeqToSet(validatedNewOwners) = {"A", "C", "D"}
  /\ threshold = currentThreshold

\* C10 as stated: Example A gives remove(B) then add(D), and the batch
\* removeOwner(A, B, threshold), addOwnerWithThreshold(D, threshold).
C10_ExampleAIsRemoveThenAdd ==
  ExampleA =>
    /\ reorderedNewOwners[1] = "A" /\ reorderedNewOwners[3] = "C"
    /\ operations = <<RemoveOp("B"), AddOp("D")>>
    /\ transactions =
         <<Transaction(safeAddressChecksum, "removeOwner",
                       <<AddressInput("prevOwner"), AddressInput("owner"),
                         UintInput("_threshold")>>,
                       [prevOwner |-> "A", owner |-> "B",
                        _threshold |-> ToString(threshold)]),
           createAddOwnerTransaction(safeAddressChecksum, "D", threshold)>>

\* C10 (amended): in Example A the alignment keeps A at index 0 and C at index
\* 2 and puts D in the hole at index 1; the only operation is swap(B, D) and
\* the batch is the single transaction swapOwner(prevOwner = A, B, D).
C10_ExampleAIsOneSwap ==
  ExampleA =>
    /\ reorderedNewOwners = <<"A", "D", "C">>
    /\ operations = <<SwapOp("B", "D")>>
    /\ transactions =
         <<Transaction(safeAddressChecksum, "swapOwner",
                       <<AddressInput("prevOwner"), AddressInput("oldOwner"),
                         AddressInput("newOwner")>>,
                       [prevOwner |-> "A", oldOwner |-> "B", newOwner |-> "D"])>>

C10_Witness ==
  /\ ExampleA
  /\ Len(transactions) = 1
  /\ jsonOutput.transactions = transactions

\* The request names an address twice once each entry is trimmed and brought
\* to its checksummed form.
RequestRepeatsAnOwner ==
  /\ ValidationFailure(options) = ""
  /\ \E i, j \in 1..Len(options.newOwners) :
       /\ i # j
       /\ getAddress(Trim(options.newOwners[i])) = getAddress(Trim(options.newOwners[j]))

\* C11: a request that names an owner twice (after trimming and checksum
\* normalisation) never gets a batch: generateTransactions stops with an
\* error before any transaction or checksum exists, and the CLI writes no
\* file.
C11_DuplicateOwnersAreRejected ==
  RequestRepeatsAnOwner =>
    /\ pc \in {"start", "fetch", "error", "reported"}
    /\ transactions = <<>>
    /\ jsonOutput = JSUndefined
    /\ received = JSUndefined
    /\ pc \in {"error", "reported"} =>
         error \in {"Duplicate addresses found in the new owners list.",
                    "StateFetchError"}

C11_Witness ==
  /\ RequestRepeatsAnOwner
  /\ \E i \in 1..Len(options.newOwners) : options.newOwners[i] \notin Addr
  /\ pc = "reported"
  /\ error = "Duplicate addresses found in the new owners list."
  /\ received = JSUndefined

\* The decimal numeral of a small natural number.
Decimal(n) == <<"0", "1", "2", "3", "4", "5", "6", "7", "8", "9">>[n + 1]

InputNames(tx) ==
  [i \in 1..Len(tx.contractMethod.inputs) |-> tx.contractMethod.inputs[i].name]

\* The transaction is the one the operation stands for.
TransactionMatches(tx, op) ==
  LET values == tx.contractInputsValues IN
  /\ tx.to = safeAddressChecksum
  /\ CASE op.type = "swap" ->
            /\ MethodOf(tx) = "swapOwner"
            /\ InputNames(tx) = <<"prevOwner", "oldOwner", "newOwner">>
            /\ DOMAIN values = {"prevOwner", "oldOwner", "newOwner"}
            /\ values.oldOwner = op.oldOwner
            /\ values.newOwner = op.newOwner
       [] op.type = "remove" ->
            /\ MethodOf(tx) = "removeOwner"
            /\ InputNames(tx) = <<"prevOwner", "owner", "_threshold">>
            /\ DOMAIN values = {"prevOwner", "owner", "_threshold"}
            /\ values.owner = op.owner
            /\ values._threshold = Decimal(threshold)
       [] op.type = "add" ->
            /\ MethodOf(tx) = "addOwnerWithThreshold"
            /\ InputNames(tx) = <<"owner", "_threshold">>
            /\ DOMAIN values = {"owner", "_threshold"}
            /\ values.owner = op.owner
            /\ values._threshold = Decimal(threshold)

\* C12: every operation becomes exactly one transaction, swap -> swapOwner
\* (prevOwner, oldOwner, newOwner), remove -> removeOwner(prevOwner, owner,
\* _threshold), add -> addOwnerWithThreshold(owner, _threshold); the
\* transactions stand in the order of the operations, and every remove and add
\* carries the one resolved threshold as a decimal string.
C12_OneTransactionPerOperation ==
  Planned =>
    /\ opIndex <= Len(operations)
    /\ pc = "process" => Len(transactions) = opIndex
    /\ pc # "process" =>
         /\ opIndex = Len(operations)
         /\ Cardinality(TxIndices(transactions, OwnerMethods)) = Len(operations)
         /\ Len(transactions) \in {opIndex, opIndex + 1}
    /\ \A k \in 1..opIndex : TransactionMatches(transactions[k], operations[k])

C12_Witness ==
  /\ pc = "done"
  /\ Len(operations) >= 2
  /\ \E k \in 1..Len(operations) : operations[k].type = "swap"
  /\ \E k \in 1..Len(operations) : operations[k].type = "add"
  /\ threshold # currentThreshold
  /\ Len(transactions) = Len(operations)

\* The owners met when following successors from an entry until the sentinel
\* comes back; "<stuck>" marks a successor that is no key of the list, or a
\* walk longer than the list.
RECURSIVE SuccessorWalk(_, _, _)
SuccessorWalk(ll, from, fuel) ==
  IF fuel = 0 \/ ~(\E i \in 1..Len(ll) : ll[i][1] = from) THEN <<"<stuck>">>
  ELSE LET next == ll[CHOOSE i \in 1..Len(ll) : ll[i][1] = from][2] IN
       IF next = SENTINEL_OWNERS THEN <<>>
       ELSE <<next>> \o SuccessorWalk(ll, next, fuel - 1)

\* The list is one ring through the sentinel and the owners it holds.
ListIsRing(ll) ==
  LET walk == SuccessorWalk(ll, SENTINEL_OWNERS, Len(ll)) IN
  /\ \A i \in 1..Len(ll) : ll[i][1] \in Addr \cup {SENTINEL_OWNERS}
  /\ \A i \in 1..Len(ll) : ll[i][2] \in Addr \cup {SENTINEL_OWNERS}
  /\ ~SeqHas(walk, "<stuck>")
  /\ IsDupFree(walk)
  /\ SeqToSet(walk) = LLKeys(ll) \ {SENTINEL_OWNERS}

\* C14: after buildOwnerLinkedList and after every swap, remove and add of the
\* loop, following successors from the sentinel visits every owner the list
\* holds exactly once and returns to the sentinel; no successor is null or
\* missing and no entry is unreachable (stated for the requests whose
\* threshold is in range).
C14_LinkedListIsRing ==
  (Planned /\ ThresholdInRange) => ListIsRing(ownerLinkedList)

\* The ring is broken only by a null placeholder of the alignment.
RingUnlessPlaceholder ==
  (Planned /\ ~SeqHas(reorderedNewOwners, JSNull)) =>
    /\ ListIsRing(ownerLinkedList)
    /\ SuccessorWalk(ownerLinkedList, SENTINEL_OWNERS, Len(ownerLinkedList))
         = ReplayList(SubSeq(operations, 1, opIndex), currentOwners)

\* s holds every member of t exactly once and nothing else.
IsPermutationOf(s, t) ==
  /\ Len(s) = Len(t)
  /\ IsDupFree(s)
  /\ SeqToSet(s) = SeqToSet(t)

\* C15: for duplicate-free current and desired owners the aligned list is a
\* permutation of the desired owners: each of them exactly once, no
\* placeholder or empty entry, the same length (stated for the requests whose
\* threshold is in range).
C15_AlignedIsPermutationOfDesired ==
  (Planned /\ ThresholdInRange) =>
    /\ IsPermutationOf(reorderedNewOwners, validatedNewOwners)
    /\ \A i \in 1..Len(reorderedNewOwners) : reorderedNewOwners[i] \in Addr

\* The aligned list is a permutation of the desired owners unless more owners
\* are dropped than added; then it has the length of the current list and
\* holds a placeholder for each owner dropped in excess.
PermutationUnlessShrink ==
  Planned =>
    LET dropped == Cardinality(SeqToSet(currentOwners) \ SeqToSet(validatedNewOwners))
        added == Cardinality(SeqToSet(validatedNewOwners) \ SeqToSet(currentOwners))
    IN /\ dropped <= added => IsPermutationOf(reorderedNewOwners, validatedNewOwners)
       /\ dropped > added =>
            /\ Len(reorderedNewOwners) = Len(currentOwners)
            /\ Len(SelectSeq(reorderedNewOwners, LAMBDA x : x = JSNull)) = dropped - added
            /\ IsPermutationOf(SelectSeq(reorderedNewOwners, LAMBDA x : x # JSNull),
                               validatedNewOwners)

\* The desired owners that are not current owners, in their desired order.
NewOnly == SelectSeq(validatedNewOwners, LAMBDA x : ~SeqHas(currentOwners, x))
\* The indices whose current owner is not desired, and the rank of one of
\* them among these.
HoleIndices == {i \in 1..Len(currentOwners) : ~SeqHas(validatedNewOwners, currentOwners[i])}
HoleRank(i) == Cardinality({h \in HoleIndices : h <= i})

\* C16: a current owner that is desired keeps its index in the aligned list;
\* the desired owners that are not current fill the other indices below
\* |currentOwners| from the lowest up, in their desired order; those left over
\* follow after the last current index in that order; with no current owner
\* the aligned list is the desired list.
C16_AlignmentRule ==
  Planned =>
    /\ Len(reorderedNewOwners) >= Len(currentOwners)
    /\ \A i \in 1..Len(currentOwners) :
         SeqHas(validatedNewOwners, currentOwners[i]) =>
           reorderedNewOwners[i] = currentOwners[i]
    /\ \A i \in HoleIndices :
         HoleRank(i) <= Len(NewOnly) => reorderedNewOwners[i] = NewOnly[HoleRank(i)]
    /\ SubSeq(reorderedNewOwners, Len(currentOwners) + 1, Len(reorderedNewOwners))
         = SubSeq(NewOnly, Cardinality(HoleIndices) + 1, Len(NewOnly))
    /\ currentOwners = <<>> => reorderedNewOwners = validatedNewOwners

C16_Witness ==
  /\ Planned
  /\ Len(NewOnly) >= 2
  /\ HoleIndices # {}
  /\ Len(reorderedNewOwners) > Len(currentOwners)
  /\ \E i \in 1..Len(currentOwners) : SeqHas(validatedNewOwners, currentOwners[i])
  /\ reorderedNewOwners # validatedNewOwners

\* A further case of the alignment rule: two holes, filled by two desired
\* owners that are not current.
TwoHolesAreFilled ==
  /\ Planned
  /\ Cardinality(HoleIndices) >= 2
  /\ Len(NewOnly) >= 2

\* C17: with no desired owner every index of the alignment is a hole that
\* stays unfilled, and the operations are exactly one remove per current
\* owner, with no swap and no add.
C17_EmptyDesiredRemovesEveryOwner ==
  (Planned /\ validatedNewOwners = <<>>) =>
    /\ reorderedNewOwners = [i \in 1..Len(currentOwners) |-> JSNull]
    /\ Len(operations) = Len(currentOwners)
    /\ \A k \in 1..Len(operations) : operations[k].type = "remove"
    /\ \A i \in 1..Len(currentOwners) :
         Cardinality({k \in 1..Len(operations) : operations[k] = RemoveOp(currentOwners[i])}) = 1

\* What the planner does with no desired owner: one swap per current owner,
\* each to the null placeholder.
EmptyDesiredSwapsToPlaceholder ==
  (Planned /\ validatedNewOwners = <<>>) =>
    /\ reorderedNewOwners = [i \in 1..Len(currentOwners) |-> JSNull]
    /\ operations = [i \in 1..Len(currentOwners) |-> SwapOp(currentOwners[i], JSNull)]

\* The owner whose predecessor the next iteration of the loop looks up.
LookupPending ==
  pc = "process" /\ opIndex < Len(operations)
    /\ operations[opIndex + 1].type \in {"swap", "remove"}
LookupTarget ==
  LET op == operations[opIndex + 1]
  IN IF op.type = "swap" THEN op.oldOwner ELSE op.owner

\* C20: getPrevOwner returns the one key whose successor is the owner asked
\* for, the sentinel or an owner of the list; what it returns is never a
\* non-address value that ends up as a prevOwner argument (stated for the
\* requests whose threshold is in range).
C20_PrevOwnerIsAnAddressKey ==
  (Planned /\ ThresholdInRange) =>
    /\ \A k \in TxIndices(transactions, {"swapOwner", "removeOwner"}) :
         transactions[k].contractInputsValues.prevOwner \in Addr \cup {SENTINEL_OWNERS}
    /\ LookupPending =>
         /\ Cardinality({i \in 1..Len(ownerLinkedList) :
                           ownerLinkedList[i][2] = LookupTarget}) = 1
         /\ getPrevOwner(LookupTarget, ownerLinkedList) \in Addr \cup {SENTINEL_OWNERS}
         /\ LLGet(ownerLinkedList, getPrevOwner(LookupTarget, ownerLinkedList)) = LookupTarget

\* Without a placeholder in the aligned list every lookup finds exactly one
\* key, an address or the sentinel.
PrevOwnerIsAddressUnlessPlaceholder ==
  (Planned /\ ~SeqHas(reorderedNewOwners, JSNull)) =>
    /\ \A k \in TxIndices(transactions, {"swapOwner", "removeOwner"}) :
         transactions[k].contractInputsValues.prevOwner \in Addr \cup {SENTINEL_OWNERS}
    /\ LookupPending =>
         /\ Cardinality({i \in 1..Len(ownerLinkedList) :
                           ownerLinkedList[i][2] = LookupTarget}) = 1
         /\ getPrevOwner(LookupTarget, ownerLinkedList) \in Addr \cup {SENTINEL_OWNERS}

\* The successor map of a list, and the map the spec's mutations produce from
\* it.  Each mutation changes the entries it names and no other.
AsMap(ll) == [k \in LLKeys(ll) |-> LLGet(ll, k)]
InitialMap(owners) ==
  [k \in SeqToSet(owners) \cup {SENTINEL_OWNERS} |->
     IF k = SENTINEL_OWNERS
     THEN (IF owners = <<>> THEN SENTINEL_OWNERS ELSE owners[1])
     ELSE LET i == CHOOSE n \in 1..Len(owners) : owners[n] = k
          IN IF i = Len(owners) THEN SENTINEL_OWNERS ELSE owners[i + 1]]
PrevOf(f, owner) == CHOOSE p \in DOMAIN f : f[p] = owner
LastOf(f) == CHOOSE p \in DOMAIN f : f[p] = SENTINEL_OWNERS

ApplySwap(f, old, new) ==
  [k \in (DOMAIN f \cup {PropertyKey(new)}) \ {old} |->
     IF k = PrevOf(f, old) THEN new
     ELSE IF k = PropertyKey(new) THEN f[old]
     ELSE f[k]]
ApplyRemove(f, owner) ==
  [k \in DOMAIN f \ {owner} |-> IF k = PrevOf(f, owner) THEN f[owner] ELSE f[k]]
ApplyAdd(f, owner) ==
  [k \in DOMAIN f \cup {owner} |->
     IF k = owner THEN SENTINEL_OWNERS
     ELSE IF k = LastOf(f) THEN owner
     ELSE f[k]]

RECURSIVE ApplyAll(_, _)
ApplyAll(ops, f) ==
  IF ops = <<>> THEN f
  ELSE LET op == Head(ops) IN
       ApplyAll(Tail(ops),
                CASE op.type = "swap" -> ApplySwap(f, op.oldOwner, op.newOwner)
                  [] op.type = "remove" -> ApplyRemove(f, op.owner)
                  [] op.type = "add" -> ApplyAdd(f, op.owner))

\* C21: each mutation of the list changes only the entries named for it: a
\* swap sets prevOf(old) to new, new to the former successor of old and drops
\* old; a remove sets prevOf(owner) to the former successor of owner and drops
\* owner; an add sets the entry of the last owner to owner and owner to the
\* sentinel; every other entry stays (stated for the requests whose threshold
\* is in range).
C21_MutationsChangeOnlyNamedEntries ==
  (Planned /\ ThresholdInRange) =>
    AsMap(ownerLinkedList) =
      ApplyAll(SubSeq(operations, 1, opIndex), InitialMap(currentOwners))

\* The mutations are the named ones in every run whose aligned list has no
\* placeholder.
NamedEntriesUnlessPlaceholder ==
  (Planned /\ ~SeqHas(reorderedNewOwners, JSNull)) =>
    AsMap(ownerLinkedList) =
      ApplyAll(SubSeq(operations, 1, opIndex), InitialMap(currentOwners))

\* The owner an operation takes out of the set and the one it puts in;
\* "<none>" when it has no such side.
RemovedSide(op) ==
  CASE op.type = "swap" -> op.oldOwner [] op.type = "remove" -> op.owner
    [] op.type = "add" -> "<none>"
AddedSide(op) ==
  CASE op.type = "swap" -> op.newOwner [] op.type = "add" -> op.owner
    [] op.type = "remove" -> "<none>"

OperationsAreWellFounded ==
  /\ IsDupFree(currentOwners)
  /\ IsDupFree(validatedNewOwners)
  /\ IsDupFree(reorderedNewOwners)
  /\ \A k \in 1..Len(operations) :
       LET owners == ReplayList(SubSeq(operations, 1, k - 1), currentOwners)
           op == operations[k]
       IN /\ IsDupFree(owners)
          /\ RemovedSide(op) # "<none>" => SeqHas(owners, RemovedSide(op))
          /\ AddedSide(op) # "<none>" => ~SeqHas(owners, AddedSide(op))
  /\ IsDupFree(ReplayList(operations, currentOwners))
  /\ \A k, l \in 1..Len(operations) :
       k # l =>
         /\ RemovedSide(operations[k]) = RemovedSide(operations[l])
              => RemovedSide(operations[k]) = "<none>"
         /\ AddedSide(operations[k]) = AddedSide(operations[l])
              => AddedSide(operations[k]) = "<none>"

\* C22: no owner set of the pipeline holds a duplicate; when an operation is
\* applied the owner it takes out is in the simulated set and the owner it
\* puts in is not; no owner is taken out by two operations or put in by two
\* (stated for the requests whose threshold is in range).
C22_NoDuplicatesAndMembership ==
  (Planned /\ ThresholdInRange) => OperationsAreWellFounded

\* The preconditions hold in every run whose aligned list has no placeholder.
WellFoundedUnlessPlaceholder ==
  (Planned /\ ~SeqHas(reorderedNewOwners, JSNull)) => OperationsAreWellFounded

\* The threshold a transaction carries lies between 1 and n.
CarriesThresholdUpTo(tx, n) ==
  \E t \in 1..n : tx.contractInputsValues._threshold = Decimal(t)

\* Every threshold of the batch so far fits the owners held right after its
\* transaction: transaction k stands for operation k, a changeThreshold comes
\* after all of them.
ThresholdFitsEveryStep ==
  \A k \in 1..Len(transactions) :
    LET applied == IF k <= Len(operations) THEN k ELSE Len(operations)
        held == Len(ReplayList(SubSeq(operations, 1, applied), currentOwners))
    IN MethodOf(transactions[k]) \in
         {"addOwnerWithThreshold", "removeOwner", "changeThreshold"}
         => CarriesThresholdUpTo(transactions[k], held)

\* C23: every addOwnerWithThreshold and removeOwner of the batch carries a
\* threshold of at least 1 and at most the number of owners held right after
\* it, and a trailing changeThreshold one at most the final number of owners
\* (stated for a Safe with an owner and a request whose threshold is in range
\* for the desired owners).
C23_ThresholdFitsEveryStep ==
  (Planned /\ ThresholdInRange /\ currentOwners # <<>>) => ThresholdFitsEveryStep

\* The bound holds at every step when the threshold is no more than one above
\* the number of fetched owners.
ThresholdFitsWhenGrowthIsSmall ==
  (Planned /\ ThresholdInRange /\ threshold <= Len(currentOwners) + 1)
    => ThresholdFitsEveryStep

\* Every address argument of the batch so far is an address: prevOwner the
\* sentinel or an owner held when the transaction is built, the other
\* arguments fetched or desired owners.
ArgumentsAreAddresses ==
  \A k \in TxIndices(transactions, OwnerMethods) :
    LET values == transactions[k].contractInputsValues
        held == SeqToSet(ReplayList(SubSeq(operations, 1, k - 1), currentOwners))
        known == SeqToSet(currentOwners) \cup SeqToSet(validatedNewOwners)
    IN /\ "prevOwner" \in DOMAIN values =>
            values.prevOwner \in (held \cap Addr) \cup {SENTINEL_OWNERS}
       /\ \A name \in DOMAIN values \cap {"owner", "oldOwner", "newOwner"} :
            values[name] \in known \cap Addr

\* C24: every address argument of every transaction (prevOwner, owner,
\* oldOwner, newOwner) is a real address: prevOwner the sentinel or an owner
\* in the simulator, the others fetched or desired owners; none is null,
\* undefined, the string 'null' or a placeholder, also when fewer owners are
\* added than dropped (stated for the requests whose threshold is in range).
C24_ArgumentsAreAddresses ==
  (Planned /\ ThresholdInRange) => ArgumentsAreAddresses

\* The arguments are addresses in every run whose aligned list has no
\* placeholder.
AddressesUnlessPlaceholder ==
  (Planned /\ ~SeqHas(reorderedNewOwners, JSNull)) => ArgumentsAreAddresses

\* C25: the aligned list is at least as long as the fetched list and holds
\* every kept owner at its index, and calculateEditOperations, given the
\* fetched and the aligned list, emits no remove: the batch has no
\* removeOwner transaction.
C25_NoRemoveIsEverEmitted ==
  Planned =>
    /\ Len(reorderedNewOwners) >= Len(currentOwners)
    /\ \A i \in 1..Len(currentOwners) :
         SeqHas(validatedNewOwners, currentOwners[i]) =>
           reorderedNewOwners[i] = currentOwners[i]
    /\ \A k \in 1..Len(operations) : operations[k].type # "remove"
    /\ TxIndices(transactions, {"removeOwner"}) = {}

\* A finished batch for a request that drops two owners and adds none.
C25_Witness ==
  /\ pc = "done"
  /\ Len(currentOwners) = Len(validatedNewOwners) + 2
  /\ SeqToSet(validatedNewOwners) \subseteq SeqToSet(currentOwners)
  /\ Len(transactions) >= 2
  /\ TxIndices(transactions, {"removeOwner"}) = {}

\* The owner set a batch leaves when its transactions are replayed in order.
RECURSIVE ReplayBatch(_, _)
ReplayBatch(txs, owners) ==
  IF txs = <<>> THEN owners
  ELSE LET values == Head(txs).contractInputsValues
           method == MethodOf(Head(txs))
       IN ReplayBatch(Tail(txs),
                      CASE method = "swapOwner" ->
                             (owners \ {values.oldOwner}) \cup {values.newOwner}
                        [] method = "removeOwner" -> owners \ {values.owner}
                        [] method = "addOwnerWithThreshold" -> owners \cup {values.owner}
                        [] OTHER -> owners)

\* The batch length and the replayed owner set written as functions of the
\* two owner SETS and the two thresholds alone; the order of either list does
\* not enter.
BatchLengthOfSets(current, desired, wanted, fetched) ==
  LET dropped == Cardinality(current \ desired)
      added == Cardinality(desired \ current)
  IN Max(dropped, added)
       + (IF wanted # fetched /\ added <= dropped /\ dropped > 0 THEN 1 ELSE 0)
ReplayedSetOfSets(current, desired) ==
  desired \cup (IF Cardinality(current \ desired) > Cardinality(desired \ current)
                THEN {JSNull} ELSE {})

\* C26: for a fixed fetched state and threshold the number of transactions
\* and the owner set obtained by replaying the batch depend on the desired
\* owners and on the fetched owners as sets only: listing either in another
\* order changes neither.
C26_OrderOfOwnersIsIrrelevant ==
  pc = "done" =>
    /\ Len(transactions) =
         BatchLengthOfSets(SeqToSet(currentOwners), SeqToSet(validatedNewOwners),
                           threshold, currentThreshold)
    /\ ReplayBatch(transactions, SeqToSet(currentOwners)) =
         ReplayedSetOfSets(SeqToSet(currentOwners), SeqToSet(validatedNewOwners))

\* A finished run whose fetched and desired lists are both listed against
\* the alphabet, with owners kept, dropped and added.
C26_Witness ==
  /\ pc = "done"
  /\ currentOwners = <<"C", "B", "A">>
  /\ validatedNewOwners = <<"D", "A", "C">>
  /\ Len(transactions) = 1
  /\ ReplayBatch(transactions, SeqToSet(currentOwners)) = {"A", "C", "D"}

\* The batch the naive version makes of the request of this run.
NaiveBatch ==
  generateTransactionsNaive(safeAddressChecksum, currentOwners, currentThreshold,
                            validatedNewOwners, threshold)

\* C27: for a non-empty duplicate-free fetched owner list, a duplicate-free
\* desired list and a threshold not above the number of desired owners (and
\* at least 1), the naive version and the edit-distance version emit batches
\* with the same number of transactions.
C27_NaiveAndEditDistanceBatchLengths ==
  (pc = "done" /\ currentOwners # <<>> /\ ThresholdInRange) =>
    /\ NaiveBatch.error = ""
    /\ Len(NaiveBatch.transactions) = Len(transactions)

\* The two batches have the same length in every run whose aligned list has
\* no placeholder, and the naive batch is never longer.
SameLengthUnlessPlaceholder ==
  (pc = "done" /\ currentOwners # <<>> /\ ThresholdInRange) =>
    /\ NaiveBatch.error = ""
    /\ Len(NaiveBatch.transactions) <= Len(transactions)
    /\ ~SeqHas(reorderedNewOwners, JSNull) =>
         Len(NaiveBatch.transactions) = Len(transactions)

\* ------------------------------------- calculateEditOperations on its own
SeqsUpTo(S, n) == UNION {[1..k -> S] : k \in 0..n}
EditAlphabet == {"A", "B", JSNull}

InitEdit ==
  /\ pc = "edit"
  /\ currentOwners \in SeqsUpTo(EditAlphabet, MaxEditLen)
  /\ reorderedNewOwners \in SeqsUpTo(EditAlphabet, MaxEditLen)
  /\ options = Options("0xSafe", <<>>, "1", NoThreshold, "key")
  /\ chain = [owners |-> <<>>, threshold |-> 0]
  /\ safeAddressChecksum = "0xSafe"
  /\ validatedNewOwners = <<>>
  /\ currentThreshold = 0
  /\ threshold = 0
  /\ ownerLinkedList = <<>>
  /\ operations = <<>>
  /\ opIndex = 0
  /\ transactions = <<>>
  /\ hasAddOrRemove = FALSE
  /\ jsonOutput = JSUndefined
  /\ error = ""
  /\ received = JSUndefined
  /\ providerUrl = JSUndefined

\* lib/index.js 210-283, called with the two sequences of the state.
ComputeEditOperations ==
  /\ pc = "edit"
  /\ LET result == calculateEditOperations(currentOwners, reorderedNewOwners) IN
     /\ operations' = result.operations
     /\ pc' = IF result.threw THEN "error" ELSE "edited"
     /\ error' = IF result.threw THEN "Error computing edit operations." ELSE ""
  /\ UNCHANGED <<providerUrl, options, chain, safeAddressChecksum, validatedNewOwners,
                 currentOwners, currentThreshold, threshold, reorderedNewOwners,
                 ownerLinkedList, opIndex, transactions, hasAddOrRemove,
                 jsonOutput, received>>

NextEdit == ComputeEditOperations

SpecEdit == InitEdit /\ [][NextEdit]_vars

\* The unit-cost edit distance by its textbook recurrence on the sequences
\* themselves: no matrix, no backtrack.
RECURSIVE EditDistance(_, _)
EditDistance(s, t) ==
  IF s = <<>> THEN Len(t)
  ELSE IF t = <<>> THEN Len(s)
  ELSE Min3(EditDistance(Tail(s), Tail(t)) + (IF Head(s) = Head(t) THEN 0 ELSE 1),
            EditDistance(s, Tail(t)) + 1,
            EditDistance(Tail(s), t) + 1)

\* C4: calculateEditOperations returns as many operations as the unit-cost
\* edit distance between its two arguments.
C4_OperationCountIsEditDistance ==
  pc = "edited" =>
    Len(operations) = EditDistance(currentOwners, reorderedNewOwners)

C4_Witness ==
  /\ pc = "edited"
  /\ Len(currentOwners) = MaxEditLen
  /\ \E i \in 1..Len(operations) : operations[i].type = "remove"
  /\ \E i \in 1..Len(operations) : operations[i].type = "add"
  /\ Len(operations) = EditDistance(currentOwners, reorderedNewOwners)

Prefix(s, k) == SubSeq(s, 1, k)
Reverse(s) == [k \in 1..Len(s) |-> s[Len(s) + 1 - k]]

\* The operations in the order a walk from cell (i, j) to (0, 0) meets them,
\* when a step is allowed only if it keeps the cost minimal and the allowed
\* steps are tried in the order match, substitution, insertion, deletion.
\* The costs are edit distances of prefixes, not entries of the matrix.
RECURSIVE DiscoveryOrder(_, _, _, _)
DiscoveryOrder(s, t, i, j) ==
  LET cost == EditDistance(Prefix(s, i), Prefix(t, j)) IN
  IF i = 0 /\ j = 0 THEN <<>>
  ELSE IF i > 0 /\ j > 0 /\ s[i] = t[j]
  THEN DiscoveryOrder(s, t, i - 1, j - 1)
  ELSE IF i > 0 /\ j > 0 /\ cost = EditDistance(Prefix(s, i - 1), Prefix(t, j - 1)) + 1
  THEN <<SwapOp(s[i], t[j])>> \o DiscoveryOrder(s, t, i - 1, j - 1)
  ELSE IF j > 0 /\ cost = EditDistance(Prefix(s, i), Prefix(t, j - 1)) + 1
  THEN <<AddOp(t[j])>> \o DiscoveryOrder(s, t, i, j - 1)
  ELSE IF i > 0 /\ cost = EditDistance(Prefix(s, i - 1), Prefix(t, j)) + 1
  THEN <<RemoveOp(s[i])>> \o DiscoveryOrder(s, t, i - 1, j)
  ELSE <<"<dead end>">>

\* C18: the backtrack walks from (m, n) to (0, 0) choosing, among the
\* minimal-cost steps of a cell, match before substitution before insertion
\* before deletion; the operations are returned in ascending position, the
\* reverse of the order in which the walk meets them.
C18_BacktrackPriorityAndOrder ==
  pc = "edited" =>
    operations = Reverse(DiscoveryOrder(currentOwners, reorderedNewOwners,
                                        Len(currentOwners), Len(reorderedNewOwners)))

\* A cell where substitution and insertion tie, and substitution is taken.
C18_Witness ==
  /\ pc = "edited"
  /\ Len(currentOwners) = 1
  /\ Len(reorderedNewOwners) = 2
  /\ Len(operations) = 2
  /\ operations[1].type = "add"
  /\ operations[2].type = "swap"

\* C19: for every pair of sequences the backtrack ends at (0, 0) without the
\* error 'Error computing edit operations.': at every cell other than (0, 0)
\* one of the match, substitution, insertion and deletion tests succeeds.
C19_BacktrackNeverDeadEnds ==
  pc \in {"edited", "error"} =>
    /\ pc = "edited"
    /\ error = ""
    /\ \A i \in 0..Len(currentOwners), j \in 0..Len(reorderedNewOwners) :
         (i > 0 \/ j > 0) =>
           BacktrackBranch(EditMatrix(currentOwners, reorderedNewOwners),
                           currentOwners, reorderedNewOwners, i, j) # "throw"

C19_Witness ==
  /\ pc = "edited"
  /\ Len(currentOwners) = MaxEditLen
  /\ Len(reorderedNewOwners) = MaxEditLen
  /\ \E k \in 1..Len(operations) : operations[k].type = "remove"
  /\ \E k \in 1..Len(operations) : operations[k].type = "add"
  /\ operations[Len(operations)].type = "add"

\* --------------------------------------------- calculateChecksum on its own
SampleList == buildOwnerLinkedList(<<"A", "B">>, SENTINEL_OWNERS)
SampleTransactions ==
  {createSwapOwnerTransaction("0xSafe", "B", "C", SampleList),
   createRemoveOwnerTransaction("0xSafe", "B", 1, SampleList),
   createAddOwnerTransaction("0xSafe", "C", 1),
   createChangeThresholdTransaction("0xSafe", 2)}

InitChecksum ==
  /\ pc = "stamp"
  /\ jsonOutput \in
       {[version |-> "1.0", chainId |-> c, createdAt |-> now,
         meta |-> BatchMeta("0xSafe"), transactions |-> txs] :
          c \in {"1", "5"}, now \in Clock,
          txs \in SeqsUpTo(SampleTransactions, MaxBatchLen)}
  /\ transactions = jsonOutput.transactions
  /\ options = Options("0xSafe", <<>>, jsonOutput.chainId, NoThreshold, "key")
  /\ chain = [owners |-> <<>>, threshold |-> 0]
  /\ safeAddressChecksum = "0xSafe"
  /\ validatedNewOwners = <<>>
  /\ currentOwners = <<>>
  /\ currentThreshold = 0
  /\ threshold = 0
  /\ reorderedNewOwners = <<>>
  /\ ownerLinkedList = <<>>
  /\ operations = <<>>
  /\ opIndex = 0
  /\ hasAddOrRemove = FALSE
  /\ error = ""
  /\ received = JSUndefined
  /\ providerUrl = JSUndefined

\* The batches that differ from batch in exactly one field other than
\* meta.checksum.
Tamperings(batch) ==
  {[batch EXCEPT !.chainId = "56"], [batch EXCEPT !.createdAt = @ + 1],
   [batch EXCEPT !.version = "2.0"],
   [batch EXCEPT !.meta.name = "Other Batch"],
   [batch EXCEPT !.meta.createdFromSafeAddress = "0xOther"]}
  \cup {[batch EXCEPT !.transactions[n].to = "0xOther"] :
          n \in 1..Len(batch.transactions)}
  \cup {[batch EXCEPT !.transactions[n].contractMethod.name = "otherMethod"] :
          n \in 1..Len(batch.transactions)}
  \cup UNION {{[batch EXCEPT !.transactions[n].contractInputsValues[k] =
                  IF k = "_threshold" THEN "9" ELSE "D"] :
                 k \in DOMAIN batch.transactions[n].contractInputsValues} :
              n \in 1..Len(batch.transactions)}

\* Between generation and execution the file is out of the program's hands.
Deliver ==
  /\ pc = "done"
  /\ received' \in {jsonOutput} \cup Tamperings(jsonOutput)
  /\ pc' = "received"
  /\ UNCHANGED <<providerUrl, options, chain, safeAddressChecksum, validatedNewOwners,
                 currentOwners, currentThreshold, threshold, reorderedNewOwners,
                 ownerLinkedList, operations, opIndex, transactions, hasAddOrRemove,
                 jsonOutput, error>>

NextChecksum == StampChecksum \/ Deliver

SpecChecksum == InitChecksum /\ [][NextChecksum]_vars

WithoutChecksum(batch) == [batch EXCEPT !.meta.checksum = EmptyChecksum]

\* C8: two batches that differ in any field other than meta.checksum have
\* different checksums (keccak256 being injective on the serialized string).
C8_ChecksumIsTamperEvident ==
  (pc = "received" /\ WithoutChecksum(received) # WithoutChecksum(jsonOutput))
    => calculateChecksum(received) # calculateChecksum(jsonOutput)

\* ---------------------------------------------------- getRpcUrl on its own
\* The later revision of lib/index.js picks the provider endpoint from the
\* chain id.  A URL is the sequence of the pieces concatenated to form it, so
\* the string '' is <<>> and a template literal ends with the API key.
RpcCase(chainId, alchemy, public) ==
  [chainId |-> chainId, alchemy |-> alchemy, public |-> public]

\* The cases of the switch, in source order; alchemy is <<>> for a case that
\* returns one fixed URL.
RpcCases ==
  << RpcCase("1", <<"https://eth-mainnet.g.alchemy.com/v2/">>, <<"https://rpc.ankr.com/eth">>),
     RpcCase("5", <<"https://eth-goerli.g.alchemy.com/v2/">>, <<"https://rpc.ankr.com/eth_goerli">>),
     RpcCase("11155111", <<"https://eth-sepolia.g.alchemy.com/v2/">>, <<"https://rpc.sepolia.org">>),
     RpcCase("137", <<"https://polygon-mainnet.g.alchemy.com/v2/">>, <<"https://polygon-rpc.com">>),
     RpcCase("80001", <<"https://polygon-mumbai.g.alchemy.com/v2/">>, <<"https://rpc-mumbai.maticvigil.com">>),
     RpcCase("1101", <<>>, <<"https://rpc.ankr.com/polygon_zkevm">>),
     RpcCase("56", <<>>, <<"https://bsc-dataseed.binance.org/">>),
     RpcCase("97", <<>>, <<"https://data-seed-prebsc-1-s1.binance.org:8545/">>),
     RpcCase("100", <<>>, <<"https://rpc.gnosis.gateway.fm/">>),
     RpcCase("97", <<>>, <<"https://rpc.chiado.gnosis.gateway.fm/">>),
     RpcCase("43114", <<>>, <<"https://api.avax.network/ext/bc/C/rpc">>),
     RpcCase("43113", <<>>, <<"https://api.avax-test.network/ext/bc/C/rpc">>),
     RpcCase("250", <<>>, <<"https://rpc.ftm.tools/">>),
     RpcCase("4002", <<>>, <<"https://rpc.testnet.fantom.network/">>),
     RpcCase("10", <<"https://opt-mainnet.g.alchemy.com/v2/">>, <<"https://mainnet.optimism.io">>),
     RpcCase("420", <<"https://opt-goerli.g.alchemy.com/v2/">>, <<"https://goerli.optimism.io">>),
     RpcCase("42161", <<"https://arb-mainnet.g.alchemy.com/v2/">>, <<"https://arb1.arbitrum.io/rpc">>),
     RpcCase("421613", <<"https://arb-goerli.g.alchemy.com/v2/">>, <<"https://goerli-rollup.arbitrum.io/rpc">>),
     RpcCase("8453", <<>>, <<"https://base.llamarpc.com">>) >>

\* The case a switch on chainId.toString() enters: the first whose label
\* equals it, 0 for the default branch.
SwitchCase(chainId) ==
  LET hits == {k \in 1..Len(RpcCases) : RpcCases[k].chainId = chainId}
  IN IF hits = {} THEN 0 ELSE CHOOSE k \in hits : \A h \in hits : k <= h

getRpcUrl(chainId, alchemyApiKey, customRpcUrl) ==
  IF customRpcUrl # <<>>
  THEN [threw |-> FALSE, url |-> customRpcUrl]
  ELSE LET k == SwitchCase(chainId) IN
       IF k = 0 THEN [threw |-> TRUE, url |-> <<>>]
       ELSE IF RpcCases[k].alchemy # <<>> /\ Truthy(alchemyApiKey)
       THEN [threw |-> FALSE, url |-> Append(RpcCases[k].alchemy, alchemyApiKey)]
       ELSE [threw |-> FALSE, url |-> RpcCases[k].public]

\* README, Supported Networks.
ReadmeChainIds ==
  {"1", "5", "11155111", "137", "80001", "56", "97", "100", "10200", "43114",
   "43113", "250", "4002", "10", "420", "42161", "421613", "8453"}

\* The calls: every listed chain, the zkEVM chain the switch also knows, and
\* a chain nobody lists; with and without an API key and a custom URL.
RpcOptionSets ==
  {[chainId |-> c, alchemyApiKey |-> k, rpcUrl |-> u] :
     c \in ReadmeChainIds \cup {"1101", "31337"},
     k \in {"", "key"},
     u \in {<<>>, <<"https://rpc.example.org">>}}

InitRpc ==
  /\ pc = "rpc"
  /\ options \in RpcOptionSets
  /\ chain = [owners |-> <<>>, threshold |-> 0]
  /\ safeAddressChecksum = "0xSafe"
  /\ validatedNewOwners = <<>>
  /\ currentOwners = <<>>
  /\ currentThreshold = 0
  /\ threshold = 0
  /\ reorderedNewOwners = <<>>
  /\ ownerLinkedList = <<>>
  /\ operations = <<>>
  /\ opIndex = 0
  /\ transactions = <<>>
  /\ hasAddOrRemove = FALSE
  /\ jsonOutput = JSUndefined
  /\ error = ""
  /\ received = JSUndefined
  /\ providerUrl = JSUndefined

\* const providerUrl = getRpcUrl(chainId, alchemyApiKey, rpcUrl)
ResolveRpcUrl ==
  /\ pc = "rpc"
  /\ LET resolved == getRpcUrl(options.chainId, options.alchemyApiKey, options.rpcUrl) IN
     IF resolved.threw
     THEN /\ Throw("Unsupported chainId")
          /\ UNCHANGED providerUrl
     ELSE /\ providerUrl' = resolved.url
          /\ pc' = "resolved"
          /\ error' = ""
  /\ UNCHANGED <<options, chain, safeAddressChecksum, validatedNewOwners,
                 currentOwners, currentThreshold, threshold, reorderedNewOwners,
                 ownerLinkedList, operations, opIndex, transactions, hasAddOrRemove,
                 jsonOutput, received>>

NextRpc == ResolveRpcUrl

SpecRpc == InitRpc /\ [][NextRpc]_vars

\* C13: for every chain id the README lists, getRpcUrl without a custom URL
\* returns an endpoint rather than failing with 'Unsupported chainId', and no
\* two listed chain ids enter the same case of the switch.
C13_ListedChainsResolve ==
  (/\ pc \in {"resolved", "error"}
   /\ options.chainId \in ReadmeChainIds
   /\ options.rpcUrl = <<>>) =>
    /\ pc = "resolved"
    /\ providerUrl # <<>>
    /\ SwitchCase(options.chainId) # 0
    /\ \A other \in ReadmeChainIds \ {options.chainId} :
         SwitchCase(other) # SwitchCase(options.chainId)

\* Without a custom URL the call fails for Gnosis Chiado and for the unlisted
\* chain, and for no other chain.
OnlyChiadoAndUnlistedFail ==
  (/\ pc \in {"resolved", "error"}
   /\ options.rpcUrl = <<>>) =>
    (pc = "error" <=> options.chainId \in {"10200", "31337"})

====
